---- MODULE Spec2Model ----
(***************************************************************************)
(* Bike_radar: the serial frame synchronizer, the TLV decoder and the grid *)
(* coordinate mapper of backend/grid_backend.py (class GridBackend), with  *)
(* the GUI's create_grid requests of frontend/main_window.py.              *)
(*                                                                         *)
(* Bytes are integers 0..255.  A float32 is decoded from its four bytes to *)
(* a fixed-point integer in units of 1/FX metre (rounded towards zero);    *)
(* grid coordinates are fixed-point integers in units of 1/GX cell.  The   *)
(* configuration values of a request are whole metres.  u32 fields of the  *)
(* input streams keep their top byte below 128 (TLC integers are 32 bit).  *)
(***************************************************************************)
EXTENDS Integers, Sequences, FiniteSets, TLC

VARIABLES
    x_min, x_max, y_min, y_max, nx, ny,  \* GridBackend's grid dimensions
    cfg,                \* the request dict create_grid is handling (or handled last)
    gpc,                \* where the GUI context is inside create_grid ("idle": outside)
    verdict,            \* how the last finished create_grid call ended
    calls,              \* number of create_grid calls made so far
    grid_ready,         \* the grid_ready signal: shapes <<ny, nx>> emitted so far
    running,            \* self.running
    thread,             \* self.reading_thread: "none", "alive" or "exited"
    sent,               \* number of bytes of the stream the device has sent
    in_waiting,         \* ser.in_waiting: bytes received by the port and not read yet
    buffer,             \* the worker's accumulation buffer
    frames,             \* history: the frames handed to parse_standard_frame
    dims_at,            \* history: the grid dimensions when each frame was parsed
    split,              \* history: a read returned bytes while more were to come
    trimmed,            \* history: the buffer was cut to its last 1024 bytes
    radar_points_ready, \* the radar_points_ready signal: batches emitted so far
    errors,             \* history: decode errors reported (log.error / print)
    last,               \* how the worker's last loop iteration ended
    sc,                 \* the scenario (input byte stream) of this behaviour
    rpc,                \* where the worker is inside rescale_and_emit_points
    used                \* the grid dimensions the worker has read for one track

gridVars == <<x_min, x_max, y_min, y_max, nx, ny>>
guiVars == <<cfg, gpc, verdict, calls, grid_ready>>
workerVars == <<running, thread, sent, in_waiting, buffer, frames, dims_at, split, trimmed,
                radar_points_ready, errors, last, sc>>
raceVars == <<rpc, used>>
vars == <<gridVars, guiVars, workerVars, raceVars>>

----------------------------------------------------------------------------
(* Constants of the program *)

MAGIC_WORD == <<2, 1, 4, 3, 6, 5, 8, 7>>
HEADER_LEN == 40
TRIM_LEN == 1024
tlvHeaderLength == 8
targetSize == 112
TRACK_TLV == 1010

(* Fixed-point resolutions of the model: metres and grid cells *)
FX == 2 ^ 8
GX == 10 * 10
FxInf == 2 ^ 30
FxNaN == 0 - (2 ^ 30) - 1
\* the confidence threshold 0.5 of rescale_and_emit_points, in units of 1/FX
CONF_MIN == FX \div 2

----------------------------------------------------------------------------
(* Byte sequences *)

Min(a, b) == IF a <= b THEN a ELSE b
Max(a, b) == IF a >= b THEN a ELSE b

\* Python's data[i:j] for 0 <= i, on a sequence (slices never raise)
Slice(data, i, j) ==
    LET hi == Min(j, Len(data))
    IN  IF i >= hi THEN << >> ELSE SubSeq(data, i + 1, hi)

\* Python's data[i:]
From(data, i) == Slice(data, i, Len(data))

\* Python's data[-n:] for n > 0
Tail_n(data, n) == IF Len(data) <= n THEN data ELSE SubSeq(data, Len(data) - n + 1, Len(data))

\* bytearray.find(MAGIC_WORD): the 0-based index of the first occurrence, or -1
Find(data) ==
    LET hits == {i \in 1..(Len(data) - Len(MAGIC_WORD) + 1) :
                    \A k \in 1..Len(MAGIC_WORD) : data[i + k - 1] = MAGIC_WORD[k]}
    IN  IF hits = {} THEN -1
        ELSE (CHOOSE i \in hits : \A j \in hits : i <= j) - 1

\* struct '<I' at byte offset off (0-based) of data
U32(data, off) ==
    data[off + 1] + 256 * data[off + 2] + 65536 * data[off + 3]
        + 16777216 * data[off + 4]

\* struct '<f' at byte offset off, in units of 1/FX, rounded towards zero;
\* magnitudes of 2^22 metres and above (and the infinities) give +-FxInf,
\* a NaN gives FxNaN
F32(data, off) ==
    LET b0 == data[off + 1]
        b1 == data[off + 2]
        b2 == data[off + 3]
        b3 == data[off + 4]
        neg == b3 >= 128
        e == (b3 % 128) * 2 + (b2 \div 128)
        frac == (b2 % 128) * 65536 + b1 * 256 + b0
        mant == IF e = 0 THEN frac ELSE 8388608 + frac
        shift == (IF e = 0 THEN 1 ELSE e) - 150 + 8
        mag == IF e = 255 \/ shift > 6 THEN FxInf
               ELSE IF shift >= 0 THEN mant * (2 ^ shift)
               ELSE IF shift < -24 THEN 0
               ELSE mant \div (2 ^ (0 - shift))
    IN  IF e = 255 /\ frac # 0 THEN FxNaN
        ELSE IF neg THEN 0 - mag ELSE mag

----------------------------------------------------------------------------
(* create_grid: the configuration request of the GUI context *)

\* the grid dimensions as one record
Dims == [x_min |-> x_min, x_max |-> x_max, y_min |-> y_min, y_max |-> y_max,
         nx |-> nx, ny |-> ny]

\* one statement of create_grid on the record g = [pc, self, emit]
CreateGridStep(g, c) ==
    LET s == g.self IN
    CASE g.pc = "l38" -> [g EXCEPT !.pc = "l39", !.self.x_min = c.x_min]
      [] g.pc = "l39" -> [g EXCEPT !.pc = "l40", !.self.x_max = c.x_max]
      [] g.pc = "l40" -> [g EXCEPT !.pc = "l41", !.self.y_min = c.y_min]
      [] g.pc = "l41" -> [g EXCEPT !.pc = "l46", !.self.y_max = c.y_max]
      [] g.pc = "l46" ->
            IF c.dx <= 0 \/ c.dy <= 0
            THEN [g EXCEPT !.pc = "rejected"]
            ELSE [g EXCEPT !.pc = "l49"]
      [] g.pc = "l49" ->
            IF s.x_max <= s.x_min \/ s.y_max <= s.y_min
            THEN [g EXCEPT !.pc = "rejected"]
            ELSE [g EXCEPT !.pc = "l53"]
      [] g.pc = "l53" ->
            [g EXCEPT !.pc = "l54", !.self.nx = (s.x_max - s.x_min) \div c.dx]
      [] g.pc = "l54" ->
            [g EXCEPT !.pc = "l56", !.self.ny = (s.y_max - s.y_min) \div c.dy]
      [] g.pc = "l56" ->
            IF s.nx <= 0 \/ s.ny <= 0
            THEN [g EXCEPT !.pc = "rejected"]
            ELSE [g EXCEPT !.pc = "l66"]
      [] g.pc = "l66" -> [g EXCEPT !.pc = "accepted", !.emit = TRUE]
      [] OTHER -> g

RECURSIVE CreateGridRun(_, _)
\* create_grid from the statement g.pc to its return
CreateGridRun(g, c) ==
    IF g.pc \in {"accepted", "rejected"} THEN g
    ELSE CreateGridRun(CreateGridStep(g, c), c)

----------------------------------------------------------------------------
(* parse_track_tlv: the track records of a type-1010 TLV *)

\* struct 'I27f' of one 112-byte record: the columns the mapper consumes
\* (0: target id, 1: X position, 2: Y position, 11: confidence level)
TargetData(rec) ==
    [id |-> U32(rec, 0), x |-> F32(rec, 4), y |-> F32(rec, 8), conf |-> F32(rec, 108)]

\* the except branch of the record loop: the TLV is reported to hold no target
TrackFailure(acc) == [n |-> 0, targets |-> acc, failed |-> TRUE]

RECURSIVE TrackLoop(_, _, _)
\* the loop over range(numDetectedTargets): tlvData is consumed record by record
TrackLoop(tlvData, todo, acc) ==
    IF todo = 0 THEN [n |-> Len(acc), targets |-> acc, failed |-> FALSE]
    ELSE IF Len(tlvData) < targetSize THEN TrackFailure(acc)
    ELSE TrackLoop(From(tlvData, targetSize), todo - 1,
                   Append(acc, TargetData(Slice(tlvData, 0, targetSize))))

parse_track_tlv(tlvData, tlvLength) ==
    TrackLoop(tlvData, tlvLength \div targetSize, << >>)

----------------------------------------------------------------------------
(* rescale_and_emit_points: the grid coordinate mapper *)

\* a faulty Confident: > instead of >=
ConfidentStrict(t) == t.conf # FxNaN /\ t.conf > CONF_MIN

\* the confidence filter targets[targets[:, 11] >= 0.5] (a NaN compares false)
Confident(t) == t.conf # FxNaN /\ t.conf >= CONF_MIN

\* a faulty Scale: the fraction of the range is multiplied by n, not n - 1
ScaleByCells(v, lo, hi, lo_d, n) ==
    IF v = FxNaN \/ hi = lo_d \/ v >= 2 ^ 19 \/ v <= 0 - (2 ^ 19) THEN FxNaN
    ELSE ((v - lo * FX) * n * GX) \div ((hi - lo_d) * FX)

\* ((v - lo) / (hi - lo_d)) * (n - 1) in units of 1/GX cell, rounded down; v in
\* units of 1/FX metre, lo, hi and lo_d in metres (the expression reads the
\* lower bound twice: lo in the numerator, lo_d in the divisor).  A zero divisor gives the numpy
\* results inf, -inf and nan; a numerator of 2^19/FX metres and more gives
\* +-FxInf (for |hi - lo| <= 2000 the clamped result is the same).
Scale(v, lo, hi, lo_d, n) ==
    LET num0 == v - lo * FX
        den0 == (hi - lo_d) * FX
        num == IF den0 < 0 THEN 0 - num0 ELSE num0
        den == IF den0 < 0 THEN 0 - den0 ELSE den0
        big == 2 ^ 19
    IN  IF v = FxNaN THEN FxNaN
        ELSE IF den = 0
             THEN (IF num0 = 0 \/ n = 1 THEN FxNaN
                   ELSE IF (num0 > 0) = (n > 1) THEN FxInf ELSE 0 - FxInf)
        ELSE IF v >= big \/ v <= 0 - big
             THEN (IF n = 1 THEN 0
                   ELSE IF ((v > 0) = (den0 > 0)) = (n > 1) THEN FxInf ELSE 0 - FxInf)
        ELSE (num * (n - 1) * GX) \div den

\* a faulty Clamp: the lower bound 0 is not applied
ClampNoFloor(g, n) == IF g # FxNaN /\ g < (n - 1) * GX THEN g ELSE (n - 1) * GX

\* max(0, min(n - 1, g)) of Python: min and max return their first argument
\* unless the second compares smaller (greater), so a NaN gives n - 1, then
\* max(0, n - 1)
Clamp(g, n) ==
    LET m == IF g # FxNaN /\ g < (n - 1) * GX THEN g ELSE (n - 1) * GX
    IN  IF m > 0 THEN m ELSE 0

\* the point appended for one target, from the dimensions u read for it
RescaledPoint(t, u) ==
    [x |-> Clamp(Scale(t.x, u.x_min, u.x_max, u.x_min_d, u.nx283), u.nx286),
     y |-> Clamp(Scale(t.y, u.y_min, u.y_max, u.y_min_d, u.ny284), u.ny287),
     id |-> t.id, x_real |-> t.x, y_real |-> t.y]

\* the dimensions one target is mapped with when nothing changes them meanwhile
UsedOf(d) ==
    [x_min |-> d.x_min, x_max |-> d.x_max, x_min_d |-> d.x_min, nx283 |-> d.nx,
     y_min |-> d.y_min, y_max |-> d.y_max, y_min_d |-> d.y_min, ny284 |-> d.ny,
     nx286 |-> d.nx, ny287 |-> d.ny]

\* the batches rescale_and_emit_points emits for targets: none or one
rescale_and_emit_points(targets, d) ==
    LET kept == SelectSeq(targets, Confident)
    IN  IF Len(targets) = 0 THEN << >>
        ELSE IF Len(kept) = 0 THEN << >>
        ELSE IF d.nx = 0 \/ d.ny = 0 THEN << >>
        ELSE << [i \in 1..Len(kept) |-> RescaledPoint(kept[i], UsedOf(d))] >>

----------------------------------------------------------------------------
(* parse_standard_frame: the frame header and the TLV dispatcher *)

\* tlv_header_decode: struct '2I' needs exactly 8 bytes
TlvHeaderOk(data) == Len(data) = tlvHeaderLength

\* a faulty OnTlvError: the exception leaves parse_standard_frame
OnTlvErrorRaises(p) == [p EXCEPT !.raised = TRUE, !.left = 0]

\* "except Exception ... break": the error is logged and the frame is left
OnTlvError(p) == [p EXCEPT !.errors = @ + 1, !.left = 0]

\* the branch "elif tlvType == 1010" on the payload of one TLV
OnTrackTlv(p, tlvPayload, tlvLength, d) ==
    LET r == parse_track_tlv(tlvPayload, tlvLength)
    IN  [p EXCEPT !.errors = IF r.failed THEN @ + 1 ELSE @,
                  !.emits = IF r.n > 0
                            THEN @ \o rescale_and_emit_points(r.targets, d)
                            ELSE @]

\* a faulty TlvStep: the payload of a TLV of another type is not stepped over
TlvStepOverHeader(frameData, p, d) ==
    LET hdr == Slice(frameData, p.offset, p.offset + tlvHeaderLength)
    IN  IF ~TlvHeaderOk(hdr) THEN OnTlvError(p)
        ELSE LET tlvType == U32(hdr, 0)
                 tlvLength == U32(hdr, 4)
                 tlvPayload == Slice(frameData, p.offset + tlvHeaderLength,
                                     p.offset + tlvHeaderLength + tlvLength)
             IN  IF tlvType = TRACK_TLV
                 THEN [OnTrackTlv(p, tlvPayload, tlvLength, d)
                          EXCEPT !.offset = @ + tlvHeaderLength + tlvLength,
                                 !.left = @ - 1]
                 ELSE [p EXCEPT !.offset = @ + tlvHeaderLength, !.left = @ - 1]

\* one iteration of "for i in range(numTLVs)" on p = [offset, left, emits, errors, raised]
TlvStep(frameData, p, d) ==
    LET hdr == Slice(frameData, p.offset, p.offset + tlvHeaderLength)
    IN  IF ~TlvHeaderOk(hdr) THEN OnTlvError(p)
        ELSE LET tlvType == U32(hdr, 0)
                 tlvLength == U32(hdr, 4)
                 tlvPayload == Slice(frameData, p.offset + tlvHeaderLength,
                                     p.offset + tlvHeaderLength + tlvLength)
                 q == IF tlvType = TRACK_TLV
                      THEN OnTrackTlv(p, tlvPayload, tlvLength, d)
                      ELSE p
             IN  [q EXCEPT !.offset = @ + tlvHeaderLength + tlvLength,
                           !.left = @ - 1]

RECURSIVE TlvLoop(_, _, _)
TlvLoop(frameData, p, d) ==
    IF p.left = 0 \/ p.raised THEN p
    ELSE TlvLoop(frameData, TlvStep(frameData, p, d), d)

\* what parsing one frame does: the batches emitted, the errors reported, and
\* whether an exception leaves the function (none does: both try blocks catch all)
parse_standard_frame(frameData, d) ==
    IF Len(frameData) < HEADER_LEN
    THEN [offset |-> 0, left |-> 0, emits |-> << >>, errors |-> 1, raised |-> FALSE]
    ELSE TlvLoop(frameData,
                 [offset |-> HEADER_LEN, left |-> U32(frameData, 32),
                  emits |-> << >>, errors |-> 0, raised |-> FALSE], d)

----------------------------------------------------------------------------
(* The worker's loop body in _read_from_serial_port *)

\* the 40-byte header starts with the magic word (its '<Q' equals 0x0708050603040102)
MagicOk(buf) == Slice(buf, 0, Len(MAGIC_WORD)) = MAGIC_WORD

\* a faulty Trim: the first 1024 bytes are kept (as the code's comment says)
TrimFirst(buf) == IF Len(buf) > TRIM_LEN THEN SubSeq(buf, 1, TRIM_LEN) ELSE buf

\* no magic word found: only the last 1024 bytes of a longer buffer are kept
Trim(buf) == IF Len(buf) > TRIM_LEN THEN Tail_n(buf, TRIM_LEN) ELSE buf

\* a faulty DropPrefix: one byte before the magic word is kept
DropPrefixShort(buf, magic_idx) == From(buf, Max(magic_idx - 1, 0))

\* "Remove data before magic word"
DropPrefix(buf, magic_idx) == From(buf, magic_idx)

\* "Check if we have enough for header"
HeaderReady(buf) == Len(buf) >= HEADER_LEN

\* a faulty FrameReady: the frame is taken as soon as its header is there
FrameReadyAtHeader(buf, totalPacketLen) == TRUE

\* "Check if full frame is available"
FrameReady(buf, totalPacketLen) == Len(buf) >= totalPacketLen

\* a faulty Rest: the buffer is emptied when a frame is taken
RestCleared(buf, totalPacketLen) == << >>

\* "Extract frame": the frame and what stays in the buffer
FrameBytes(buf, totalPacketLen) == Slice(buf, 0, totalPacketLen)
Rest(buf, totalPacketLen) == From(buf, totalPacketLen)

\* one iteration of "while self.running" on the buffer after the read:
\* the new buffer, how the iteration ended, and the frame extracted (if any)
Iteration(buf) ==
    LET magic_idx == Find(buf)
        b == DropPrefix(buf, magic_idx)
        totalPacketLen == U32(b, 12)
    IN  IF magic_idx = -1
        THEN [buffer |-> Trim(buf), last |-> "no_magic", frame |-> << >>]
        ELSE IF ~HeaderReady(b)
        THEN [buffer |-> b, last |-> "no_header", frame |-> << >>]
        ELSE IF ~MagicOk(b)
        THEN [buffer |-> From(b, 1), last |-> "resync", frame |-> << >>]
        ELSE IF ~FrameReady(b, totalPacketLen)
        THEN [buffer |-> b, last |-> "no_frame", frame |-> << >>]
        ELSE [buffer |-> Rest(b, totalPacketLen), last |-> "frame",
              frame |-> FrameBytes(b, totalPacketLen)]

\* the iterations that wait for more bytes (time.sleep, continue)
Waits == {"no_magic", "no_header", "no_frame"}

----------------------------------------------------------------------------
(* Input byte streams *)

\* struct '<I' of n
LE32(n) == <<n % 256, (n \div 256) % 256, (n \div 65536) % 256, n \div 16777216>>

Zeros(n) == [i \in 1..n |-> 0]

\* a frame header announcing totalPacketLen bytes and numTLVs TLVs, frame number f
Header(totalPacketLen, numTLVs, f) ==
    MAGIC_WORD \o LE32(3) \o LE32(totalPacketLen) \o LE32(0) \o LE32(f)
        \o LE32(0) \o LE32(0) \o LE32(numTLVs) \o LE32(0)

\* a TLV header declaring tlvLength, followed by payload
Tlv(tlvType, tlvLength, payload) == LE32(tlvType) \o LE32(tlvLength) \o payload

\* float32 values as their little-endian bytes
F_0 == <<0, 0, 0, 0>>
F_0_5 == <<0, 0, 0, 63>>
F_0_4999 == <<229, 242, 255, 62>>
F_0_9 == <<102, 102, 102, 63>>
F_3 == <<0, 0, 64, 64>>
F_50 == <<0, 0, 72, 66>>
F_m20 == <<0, 0, 160, 193>>
F_200 == <<0, 0, 72, 67>>
F_inf == <<0, 0, 128, 127>>
F_minf == <<0, 0, 128, 255>>
F_nan == <<0, 0, 192, 127>>

\* a track record: id, posX, posY, 24 opaque floats, confidence
Track(id, px, py, conf) == LE32(id) \o px \o py \o Zeros(96) \o conf

RECURSIVE Concat(_)
Concat(ss) == IF ss = << >> THEN << >> ELSE Head(ss) \o Concat(Tail(ss))

\* a well-formed frame from its TLVs (each a byte sequence)
Frame(tlvs, f) ==
    LET body == Concat(tlvs)
    IN  Header(HEADER_LEN + Len(body), Len(tlvs), f) \o body

\* a frame whose header declares numTLVs TLVs over the raw body
RawFrame(body, numTLVs, f) == Header(HEADER_LEN + Len(body), numTLVs, f) \o body

(* Bounds of the model *)
MaxCalls == 2
MaxWaiting == 2
MaxFrames == 4
MaxMaps == 1
GarbageShort == 6
GarbageLong == 1030

\* bytes that hold no magic word
Garbage(n) == [i \in 1..n |-> 16 + (i % 5)]

\* the first 5 bytes of the magic word: a marker cut short
PartialMagic == SubSeq(MAGIC_WORD, 1, 5)

\* the track of the end-to-end example: id 7 at (3.0, 50.0), confidence 0.9
F1 == Frame(<<Tlv(TRACK_TLV, targetSize, Track(7, F_3, F_50, F_0_9))>>, 1)
\* a second frame: id 8 at (-20.0, 200.0), outside the default grid
F2 == Frame(<<Tlv(TRACK_TLV, targetSize, Track(8, F_m20, F_200, F_0_5))>>, 2)
\* three tracks with confidences 0.5, 0.4999 and 0.9
F3 == Frame(<<Tlv(TRACK_TLV, 3 * targetSize,
                  Track(1, F_3, F_50, F_0_5) \o Track(2, F_0, F_3, F_0_4999)
                      \o Track(3, F_m20, F_200, F_0_9))>>, 3)
\* two type-1010 TLVs in one frame, one confident track each
F4 == Frame(<<Tlv(TRACK_TLV, targetSize, Track(4, F_3, F_50, F_0_9)),
              Tlv(TRACK_TLV, targetSize, Track(5, F_0, F_3, F_0_9))>>, 4)
\* a type-1010 TLV declaring 120 bytes where the frame holds only 112 more
F5 == Frame(<<Tlv(TRACK_TLV, targetSize + 8, Track(6, F_3, F_50, F_0_9))>>, 5)
\* only a track below the confidence threshold
F6 == Frame(<<Tlv(TRACK_TLV, targetSize, Track(9, F_3, F_50, F_0_4999))>>, 6)
\* malformed TLV content under a valid header and length: the first TLV (type
\* 1020) declares 300 bytes where 4 follow, and a second TLV is announced
Bad1 == RawFrame(Tlv(1020, 300, Zeros(4)), 2, 7)
\* malformed: a track TLV declaring two records and holding one and a half
Bad2 == RawFrame(Tlv(TRACK_TLV, 2 * targetSize,
                     Track(10, F_3, F_50, F_0_9) \o Zeros(56)), 1, 8)

\* positions that are no finite number: (NaN, -inf) and (+inf, -20.0)
F7 == Frame(<<Tlv(TRACK_TLV, 2 * targetSize,
                  Track(12, F_nan, F_minf, F_0_9) \o Track(13, F_inf, F_m20, F_0_9))>>, 9)
\* track TLVs between TLVs of other types (1020, 1011, an unknown type, 1021)
F8 == Frame(<<Tlv(1020, 12, Zeros(12)),
              Tlv(TRACK_TLV, targetSize, Track(14, F_3, F_50, F_0_9)),
              Tlv(1011, 4, Zeros(4)),
              Tlv(4242, 0, << >>),
              Tlv(TRACK_TLV, targetSize, Track(15, F_0, F_3, F_0_5)),
              Tlv(1021, 4, Zeros(4))>>, 10)

\* the magic word as incidental bytes, followed by 32 bytes that decode to
\* the given totalPacketLen
Incidental(totalPacketLen) ==
    MAGIC_WORD \o LE32(0) \o LE32(totalPacketLen) \o Zeros(24)

\* a stream: garbage, frames, garbage; chunk is the size of the pieces the
\* serial port receives it in (besides everything at once)
Scenario(pre, body, post) ==
    [pre |-> pre, body |-> body, post |-> post, chunk |-> 1]
Coarse(s) == [s EXCEPT !.chunk = HEADER_LEN + tlvHeaderLength]

\* the streams of the whole pipeline: frame contents
Scenarios ==
    << Coarse(Scenario(<< >>, <<F3>>, << >>)),
       Coarse(Scenario(<< >>, <<F4>>, << >>)),
       Coarse(Scenario(<< >>, <<F5>>, << >>)),
       Coarse(Scenario(<< >>, <<F6, F1>>, << >>)),
       Coarse(Scenario(Garbage(GarbageShort), <<Bad2>>, << >>)),
       Coarse(Scenario(<< >>, <<F7>>, << >>)),
       Coarse(Scenario(<< >>, <<F8>>, << >>)) >>

\* the streams of the synchronizer: garbage, bursts, malformed frames
SyncScenarios ==
    << Scenario(<< >>, <<F1>>, << >>),
       Scenario(Garbage(GarbageShort) \o PartialMagic, <<F1>>,
                PartialMagic \o Garbage(GarbageShort)),
       Scenario(Garbage(GarbageLong) \o PartialMagic, <<F1>>, Garbage(GarbageShort)),
       Scenario(<< >>, <<F1, F2>>, << >>),
       Scenario(<< >>, <<F2, F3, F1>>, << >>),
       Scenario(<< >>, <<Bad1, F1>>, << >>),
       Scenario(<< >>, <<Bad2, F1>>, << >>),
       Scenario(Incidental(2147483647), <<F1>>, << >>),
       Scenario(Incidental(HEADER_LEN + 4), <<F1>>, << >>),
       Scenario(Incidental(0), <<F1>>, << >>) >>

AllScenarios == Scenarios \o SyncScenarios

\* the scenario of this behaviour and its byte stream
Sc == AllScenarios[sc]
Stream == Sc.pre \o Concat(Sc.body) \o Sc.post

----------------------------------------------------------------------------
(* Configuration requests (on_create_grid of the main window) *)

Request(a, b, c, d, dx, dy) ==
    [x_min |-> a, x_max |-> b, y_min |-> c, y_max |-> d, dx |-> dx, dy |-> dy]

\* the spin boxes' defaults, another valid request, and one request for each
\* way of being invalid
Requests ==
    { Request(-12, 12, 0, 120, 1, 5),
      Request(-10, 10, 10, 60, 2, 5),
      Request(-6, 6, 20, 80, 0, 5),
      Request(5, 5, 30, 90, 1, 5),
      Request(-3, 3, 40, 30, 1, 5),
      Request(-4, 4, 50, 70, 1, 0),
      Request(0, 1, 5, 65, 5, 5),
      Request(-2, 2, 6, 8, 1, 5) }

\* the spin boxes' defaults (main_window.py, _build_ui)
DefaultRequest == Request(-12, 12, 0, 120, 1, 5)

\* the requests made while the worker decodes a stream
StreamRequests ==
    { DefaultRequest,
      Request(-10, 10, 10, 60, 2, 5),
      Request(5, 5, 30, 90, 1, 5),
      Request(0, 1, 5, 65, 5, 5) }

NoRequest == Request(0, 0, 0, 0, 0, 0)

\* the dimensions __init__ sets: no grid yet
ZeroDims == [x_min |-> 0, x_max |-> 0, y_min |-> 0, y_max |-> 0, nx |-> 0, ny |-> 0]

\* the six invariants of a configuration (spec section 3)
ValidRequest(c) ==
    /\ c.dx > 0 /\ c.dy > 0
    /\ c.x_max > c.x_min /\ c.y_max > c.y_min
    /\ (c.x_max - c.x_min) \div c.dx > 0
    /\ (c.y_max - c.y_min) \div c.dy > 0

\* the dimensions an accepted request stands for
DimsOf(c) ==
    [x_min |-> c.x_min, x_max |-> c.x_max, y_min |-> c.y_min, y_max |-> c.y_max,
     nx |-> (c.x_max - c.x_min) \div c.dx, ny |-> (c.y_max - c.y_min) \div c.dy]

----------------------------------------------------------------------------
(* Actions *)

SetDims(d) ==
    /\ x_min' = d.x_min /\ x_max' = d.x_max
    /\ y_min' = d.y_min /\ y_max' = d.y_max
    /\ nx' = d.nx /\ ny' = d.ny

\* create_grid(c) as one call of the GUI context
create_grid(c) ==
    /\ gpc = "idle"
    /\ calls < MaxCalls
    /\ LET g == CreateGridRun([pc |-> "l38", self |-> Dims, emit |-> FALSE], c)
       IN  /\ SetDims(g.self)
           /\ verdict' = g.pc
           /\ grid_ready' = IF g.emit THEN Append(grid_ready, <<g.self.ny, g.self.nx>>)
                            ELSE grid_ready
    /\ cfg' = c
    /\ calls' = calls + 1
    /\ UNCHANGED <<gpc, workerVars, raceVars>>

\* start_reading: a new worker thread with an empty buffer
start_reading ==
    /\ thread # "alive"
    /\ running' = TRUE
    /\ thread' = "alive"
    /\ buffer' = << >>
    /\ last' = "started"
    /\ UNCHANGED <<gridVars, guiVars, raceVars, sent, in_waiting, frames, dims_at,
                   split, trimmed, radar_points_ready, errors, sc>>

\* stop_reading: the stop signal (the join only waits)
stop_reading ==
    /\ running
    /\ running' = FALSE
    /\ UNCHANGED <<gridVars, guiVars, raceVars, thread, sent, in_waiting, buffer,
                   frames, dims_at, split, trimmed, radar_points_ready, errors, last, sc>>

\* the device sends bytes to the open port: a small piece or all that is left
Deliver ==
    /\ thread = "alive"
    /\ sent < Len(Stream)
    /\ \E n \in {Sc.chunk, Len(Stream) - sent} :
          /\ n <= Len(Stream) - sent
          /\ n = Len(Stream) - sent \/ in_waiting < MaxWaiting * n
          /\ in_waiting' = in_waiting + n
          /\ sent' = sent + n
    /\ UNCHANGED <<gridVars, guiVars, raceVars, running, thread, buffer, frames,
                   dims_at, split, trimmed, radar_points_ready, errors, last, sc>>

\* the batches of one frame as emitted: tagged with the number of the frame
Tagged(emits, k) == [i \in 1..Len(emits) |-> [frame |-> k, points |-> emits[i]]]

\* ser.read(ser.in_waiting): the last in_waiting bytes sent
Waiting == SubSeq(Stream, sent - in_waiting + 1, sent)

\* one iteration of the worker's loop: read what is waiting, look for a frame
\* and parse it
ReadCycle ==
    /\ thread = "alive"
    /\ running
    /\ Len(frames) < MaxFrames
    /\ LET it == Iteration(buffer \o Waiting)
           p == parse_standard_frame(it.frame, Dims)
       IN  /\ buffer' = it.buffer
           /\ last' = it.last
           /\ IF it.last = "frame"
              THEN /\ frames' = Append(frames, it.frame)
                   /\ dims_at' = Append(dims_at, Dims)
                   /\ radar_points_ready' =
                          radar_points_ready \o Tagged(p.emits, Len(frames) + 1)
                   /\ errors' = errors + p.errors
                   /\ running' = ~p.raised
              ELSE UNCHANGED <<frames, dims_at, radar_points_ready, errors, running>>
           /\ trimmed' = (trimmed \/ (it.last = "no_magic" /\ it.buffer # buffer \o Waiting))
    /\ in_waiting' = 0
    /\ split' = (split \/ (in_waiting > 0 /\ sent < Len(Stream)))
    /\ UNCHANGED <<gridVars, guiVars, raceVars, thread, sent, sc>>

\* a faulty WorkerExit: the stop signal is honoured only with an empty buffer
WorkerExitWhenDrained ==
    /\ thread = "alive"
    /\ ~running
    /\ buffer = << >>
    /\ thread' = "exited"
    /\ in_waiting' = 0
    /\ last' = "exited"
    /\ UNCHANGED <<gridVars, guiVars, raceVars, running, sent, buffer, frames,
                   dims_at, split, trimmed, radar_points_ready, errors, sc>>

\* the loop ends (stop signal or exception): the port is closed, "finally"
WorkerExit ==
    /\ thread = "alive"
    /\ ~running
    /\ thread' = "exited"
    /\ in_waiting' = 0
    /\ last' = "exited"
    /\ UNCHANGED <<gridVars, guiVars, raceVars, running, sent, buffer, frames,
                   dims_at, split, trimmed, radar_points_ready, errors, sc>>

\* serial.Serial(...) or ser.read raises: "except Exception" prints the error,
\* the with statement closes the port, "finally" clears running and the
\* thread ends; no signal is emitted
SerialError ==
    /\ thread = "alive"
    /\ running
    /\ running' = FALSE
    /\ thread' = "exited"
    /\ in_waiting' = 0
    /\ last' = "serial_error"
    /\ UNCHANGED <<gridVars, guiVars, raceVars, sent, buffer, frames, dims_at,
                   split, trimmed, radar_points_ready, errors, sc>>

----------------------------------------------------------------------------
(* Specifications *)

\* the state after GridBackend.__init__, the device about to send Stream
Constructed ==
    /\ x_min = ZeroDims.x_min /\ x_max = ZeroDims.x_max
    /\ y_min = ZeroDims.y_min /\ y_max = ZeroDims.y_max
    /\ nx = ZeroDims.nx /\ ny = ZeroDims.ny
    /\ cfg = NoRequest /\ gpc = "idle" /\ verdict = "none" /\ calls = 0
    /\ grid_ready = << >>
    /\ running = FALSE /\ thread = "none"
    /\ sent = 0 /\ in_waiting = 0 /\ buffer = << >>
    /\ frames = << >> /\ dims_at = << >> /\ split = FALSE /\ trimmed = FALSE
    /\ radar_points_ready = << >> /\ errors = 0
    /\ last = "none"
    /\ rpc = "idle" /\ used = UsedOf(ZeroDims)

Init ==
    /\ sc \in 1..Len(Scenarios)
    /\ Constructed

Next ==
    \/ \E c \in StreamRequests : create_grid(c)
    \/ start_reading
    \/ stop_reading
    \/ Deliver
    \/ ReadCycle
    \/ WorkerExit
    \/ SerialError

\* the whole pipeline: configuration requests, the worker's life, the stream
Spec == Init /\ [][Next]_vars

\* the same with the worker thread scheduled fairly: a thread whose loop
\* condition is false leaves the loop (every iteration ends: the sleeps are
\* 10 ms, ser.read(ser.in_waiting) does not block)
SpecFair == Spec /\ WF_vars(WorkerExit)

\* the worker decoding a stream under the default grid: the state after
\* create_grid(DefaultRequest) and start_reading, and no request or stop after
InitSync ==
    /\ sc \in (Len(Scenarios) + 1)..Len(AllScenarios)
    /\ LET g == CreateGridRun([pc |-> "l38", self |-> ZeroDims, emit |-> FALSE],
                              DefaultRequest)
       IN  /\ x_min = g.self.x_min /\ x_max = g.self.x_max
           /\ y_min = g.self.y_min /\ y_max = g.self.y_max
           /\ nx = g.self.nx /\ ny = g.self.ny
           /\ verdict = g.pc
           /\ grid_ready = << <<g.self.ny, g.self.nx>> >>
    /\ cfg = DefaultRequest /\ gpc = "idle" /\ calls = 1
    /\ running = TRUE /\ thread = "alive"
    /\ sent = 0 /\ in_waiting = 0 /\ buffer = << >>
    /\ frames = << >> /\ dims_at = << >> /\ split = FALSE /\ trimmed = FALSE
    /\ radar_points_ready = << >> /\ errors = 0
    /\ last = "started"
    /\ rpc = "idle" /\ used = UsedOf(ZeroDims)

NextSync ==
    \/ Deliver
    \/ ReadCycle

SpecSync == InitSync /\ [][NextSync]_vars

----------------------------------------------------------------------------
(* The GUI context and the worker statement by statement: create_grid runs  *)
(* in the GUI thread while the worker thread is in rescale_and_emit_points; *)
(* nothing orders the two, so every read and write of a grid dimension is a *)
(* step of its own.                                                         *)

\* the requests of the interleaved runs
RaceRequests ==
    { DefaultRequest,
      Request(-10, 10, 10, 60, 2, 5),
      Request(5, 5, 30, 90, 1, 5) }

\* the one confident target the worker maps
RaceTarget == TargetData(Track(7, F_3, F_50, F_0_9))

\* the reads of self.* in lines 283 to 287, in evaluation order:
\* <<the statement, the local it feeds, the dimension read>>
RaceReads ==
    << <<"l283_x_min", "x_min", "x_min">>, <<"l283_x_max", "x_max", "x_max">>,
       <<"l283_x_min_d", "x_min_d", "x_min">>, <<"l283_nx", "nx283", "nx">>,
       <<"l284_y_min", "y_min", "y_min">>, <<"l284_y_max", "y_max", "y_max">>,
       <<"l284_y_min_d", "y_min_d", "y_min">>, <<"l284_ny", "ny284", "ny">>,
       <<"l286_nx", "nx286", "nx">>, <<"l287_ny", "ny287", "ny">> >>

\* the GUI context enters create_grid(c)
GuiCall(c) ==
    /\ gpc = "idle"
    /\ calls < MaxCalls
    /\ cfg' = c
    /\ gpc' = "l38"
    /\ calls' = calls + 1
    /\ UNCHANGED <<gridVars, verdict, grid_ready, workerVars, raceVars>>

\* the GUI context runs one statement of create_grid
GuiStep ==
    /\ gpc # "idle"
    /\ LET g == CreateGridStep([pc |-> gpc, self |-> Dims, emit |-> FALSE], cfg)
           done == g.pc \in {"accepted", "rejected"}
       IN  /\ SetDims(g.self)
           /\ gpc' = IF done THEN "idle" ELSE g.pc
           /\ verdict' = IF done THEN g.pc ELSE verdict
           /\ grid_ready' = IF g.emit THEN Append(grid_ready, <<g.self.ny, g.self.nx>>)
                            ELSE grid_ready
    /\ UNCHANGED <<cfg, calls, workerVars, raceVars>>

\* the worker enters rescale_and_emit_points with the confident target
RescaleEnter ==
    /\ thread = "alive" /\ running
    /\ rpc = "idle"
    /\ Len(radar_points_ready) < MaxMaps
    /\ rpc' = "l267_nx"
    /\ UNCHANGED <<gridVars, guiVars, workerVars, used>>

\* "if self.nx == 0 or self.ny == 0: return", one read at a time
RescaleCheck ==
    /\ rpc \in {"l267_nx", "l267_ny"}
    /\ rpc' = IF rpc = "l267_nx"
              THEN (IF nx = 0 THEN "idle" ELSE "l267_ny")
              ELSE (IF ny = 0 THEN "idle" ELSE RaceReads[1][1])
    /\ UNCHANGED <<gridVars, guiVars, workerVars, used>>

\* one read of a grid dimension in lines 283 to 287
RescaleRead ==
    \E i \in 1..Len(RaceReads) :
        /\ rpc = RaceReads[i][1]
        /\ used' = [used EXCEPT ![RaceReads[i][2]] = Dims[RaceReads[i][3]]]
        /\ rpc' = IF i < Len(RaceReads) THEN RaceReads[i + 1][1] ELSE "l299"
        /\ UNCHANGED <<gridVars, guiVars, workerVars>>

\* "self.radar_points_ready.emit(rescaled_points)"
RescaleEmit ==
    /\ rpc = "l299"
    /\ radar_points_ready' =
           Append(radar_points_ready,
                  [frame |-> 0, points |-> <<RescaledPoint(RaceTarget, used)>>])
    /\ rpc' = "idle"
    /\ UNCHANGED <<gridVars, guiVars, running, thread, sent, in_waiting, buffer,
                   frames, dims_at, split, trimmed, errors, last, sc, used>>

InitRace ==
    /\ sc = 1
    /\ x_min = ZeroDims.x_min /\ x_max = ZeroDims.x_max
    /\ y_min = ZeroDims.y_min /\ y_max = ZeroDims.y_max
    /\ nx = ZeroDims.nx /\ ny = ZeroDims.ny
    /\ cfg = NoRequest /\ gpc = "idle" /\ verdict = "none" /\ calls = 0
    /\ grid_ready = << >>
    /\ running = TRUE /\ thread = "alive"
    /\ sent = 0 /\ in_waiting = 0 /\ buffer = << >>
    /\ frames = << >> /\ dims_at = << >> /\ split = FALSE /\ trimmed = FALSE
    /\ radar_points_ready = << >> /\ errors = 0
    /\ last = "started"
    /\ rpc = "idle" /\ used = UsedOf(ZeroDims)

NextRace ==
    \/ \E c \in RaceRequests : GuiCall(c)
    \/ GuiStep
    \/ RescaleEnter
    \/ RescaleCheck
    \/ RescaleRead
    \/ RescaleEmit

SpecRace == InitRace /\ [][NextRace]_vars

----------------------------------------------------------------------------
(* Properties *)

\* a configuration is active: the dimensions are those of a valid request
ActiveConfig == \E c \in Requests : ValidRequest(c) /\ Dims = DimsOf(c)

\* C1: a create_grid call that is rejected while a valid configuration is
\* active leaves x_min, x_max, y_min, y_max, nx and ny as they were.
C1_RejectedKeepsConfig ==
    [][(calls' = calls + 1 /\ verdict' = "rejected" /\ ActiveConfig)
           => Dims' = Dims]_vars

\* C2: the dimensions the worker has read for one track, when it emits the
\* point, are those of one single valid request (so x_max > x_min and
\* y_max > y_min), whatever the GUI context did meanwhile.
C2_WorkerUsesOneRequest ==
    rpc = "l299" =>
        \E c \in RaceRequests : ValidRequest(c) /\ used = UsedOf(DimsOf(c))

\* the device has sent the whole stream and the worker has read all of it
Delivered == sent = Len(Stream) /\ in_waiting = 0

\* ... and the worker's last iteration found nothing more to extract
Quiet == Delivered /\ last \in Waits

\* a frame as the device builds it: the marker first, totalPacketLen its length
ValidFrame(f) == Len(f) >= HEADER_LEN /\ MagicOk(f) /\ U32(f, 12) = Len(f)

\* the notifications emitted while parsing the k-th frame
BatchesOf(k) == SelectSeq(radar_points_ready, LAMBDA n : n.frame = k)

\* s is t or a shorter beginning of t
IsPrefix(s, t) == Len(s) <= Len(t) /\ s = SubSeq(t, 1, Len(s))

\* the scenario is one valid frame wrapped in garbage that holds no marker
Wrapped ==
    /\ Len(Sc.body) = 1 /\ ValidFrame(Sc.body[1])
    /\ Find(Sc.pre) = -1 /\ Find(Sc.post) = -1

IncidentalMarker ==
    /\ Find(Sc.pre) # -1
    /\ Len(Sc.body) = 1 /\ ValidFrame(Sc.body[1])

\* C4: when the marker appears as incidental bytes before a valid frame,
\* the worker has extracted the valid frame, unmodified, by the time it has
\* read everything and waits for more bytes.
C4_IncidentalMarkerResync ==
    (IncidentalMarker /\ Quiet) => \E k \in 1..Len(frames) : frames[k] = Sc.body[1]

\* the scenario is one valid frame and nothing else
SingleFrame ==
    /\ Len(Sc.body) = 1 /\ ValidFrame(Sc.body[1])
    /\ Sc.pre = << >> /\ Sc.post = << >>

\* C5: however the bytes of one valid frame are split over the read cycles,
\* the worker extracts nothing before the frame is complete and then exactly
\* that frame, leaving the buffer empty: the same as when the frame arrives
\* in one piece.
C5_ChunkedDelivery ==
    SingleFrame =>
        /\ frames \in {<< >>, Sc.body}
        /\ Delivered /\ last # "started" => (frames = Sc.body /\ buffer = << >>)
        /\ frames = << >> => IsPrefix(buffer, Sc.body[1])

\* C5 witness: the frame arrived in pieces and has been extracted
C5_Witness == SingleFrame /\ split /\ Delivered /\ frames = Sc.body

\* the scenario is a burst of two or more valid frames
Burst ==
    /\ Len(Sc.body) >= 2 /\ \A i \in 1..Len(Sc.body) : ValidFrame(Sc.body[i])
    /\ Sc.pre = << >> /\ Sc.post = << >>

\* the frame numbers of the notifications, in emission order
FrameTags == [i \in 1..Len(radar_points_ready) |-> radar_points_ready[i].frame]

\* the target ids of the notifications, in emission order
RECURSIVE IdsFrom(_)
IdsFrom(i) ==
    IF i > Len(radar_points_ready) THEN << >>
    ELSE [j \in 1..Len(radar_points_ready[i].points) |->
              radar_points_ready[i].points[j].id] \o IdsFrom(i + 1)

\* C6: of valid frames arriving back to back the worker extracts the first
\* k, in stream order, none skipped or merged, and all of them once
\* everything is read; the notifications come in the order of their frames
\* (for the bursts F1 F2 and F2 F3 F1: the ids 7, 8 and 8, 1, 3, 7).
C6_FramesInOrder ==
    Burst =>
        /\ IsPrefix(frames, Sc.body)
        /\ Quiet => frames = Sc.body
        /\ \A i \in 1..(Len(FrameTags) - 1) : FrameTags[i] <= FrameTags[i + 1]
        /\ Sc.body = <<F1, F2>> => IsPrefix(IdsFrom(1), <<7, 8>>)
        /\ Sc.body = <<F2, F3, F1>> => IsPrefix(IdsFrom(1), <<8, 1, 3, 7>>)
        /\ (Quiet /\ Sc.body = <<F1, F2>>) => FrameTags = <<1, 2>>
        /\ (Quiet /\ Sc.body = <<F2, F3, F1>>) => FrameTags = <<1, 2, 3>>

\* C6 witness: two frames delivered in one piece, both extracted and notified
C6_Witness ==
    /\ Burst /\ ~split /\ Quiet
    /\ frames = Sc.body /\ Len(radar_points_ready) = Len(Sc.body)

\* the code's test for "grid initialized" on dimensions d
Active(d) == d.nx # 0 /\ d.ny # 0

RECURSIVE TilesFrame(_, _, _)
\* n TLVs from offset off fill the frame f exactly, track TLVs holding whole records
TilesFrame(f, off, n) ==
    IF n = 0 THEN off = Len(f)
    ELSE /\ off + tlvHeaderLength <= Len(f)
         /\ off + tlvHeaderLength + U32(f, off + 4) <= Len(f)
         /\ U32(f, off) = TRACK_TLV => U32(f, off + 4) % targetSize = 0
         /\ TilesFrame(f, off + tlvHeaderLength + U32(f, off + 4), n - 1)

\* a frame as the wire format describes it
WellFormed(f) == ValidFrame(f) /\ TilesFrame(f, HEADER_LEN, U32(f, 32))

RECURSIVE TrackRecords(_, _, _)
\* the 112-byte track records of a well-formed frame, in stream order
TrackRecords(f, off, n) ==
    IF n = 0 THEN << >>
    ELSE LET len == U32(f, off + 4)
             start == off + tlvHeaderLength
             recs == IF U32(f, off) = TRACK_TLV
                     THEN [i \in 1..(len \div targetSize) |->
                              Slice(f, start + (i - 1) * targetSize,
                                    start + i * targetSize)]
                     ELSE << >>
         IN  recs \o TrackRecords(f, start + len, n - 1)

\* the confidence of a record is >= 0.5, read off its IEEE-754 bits
\* (sign 0, biased exponent >= 126, not a NaN)
ConfAtLeastHalf(rec) ==
    LET b3 == rec[targetSize]
        b2 == rec[targetSize - 1]
        e == (b3 % 128) * 2 + (b2 \div 128)
        frac == (b2 % 128) * 65536 + rec[targetSize - 2] * 256 + rec[targetSize - 3]
    IN  b3 < 128 /\ e >= 126 /\ ~(e = 255 /\ frac # 0)

\* the ids of the records of f with confidence >= 0.5, in stream order
KeptIds(f) ==
    LET kept == SelectSeq(TrackRecords(f, HEADER_LEN, U32(f, 32)), ConfAtLeastHalf)
    IN  [i \in 1..Len(kept) |-> U32(kept[i], 0)]

\* the target ids of one batch of points
BatchIds(points) == [i \in 1..Len(points) |-> points[i].id]

\* C7: a well-formed frame parsed with a grid configured produces exactly
\* one points notification when it holds a track with confidence >= 0.5 and
\* none otherwise, however many TLVs (also type-1010 TLVs) it carries.
C7_OneBatchPerFrame ==
    \A k \in 1..Len(frames) :
        (WellFormed(frames[k]) /\ Active(dims_at[k])) =>
            Len(BatchesOf(k)) = IF KeptIds(frames[k]) # << >> THEN 1 ELSE 0

\* the first TLV of the frame declares more bytes than the frame holds
FirstTlvOverruns(f) ==
    /\ ValidFrame(f) /\ U32(f, 32) >= 1
    /\ Len(f) >= HEADER_LEN + tlvHeaderLength
    /\ HEADER_LEN + tlvHeaderLength + U32(f, HEADER_LEN + 4) > Len(f)

\* C9: a frame whose first TLV declares a length past the end of the frame
\* yields no points notification: no track of that TLV is emitted and no
\* later TLV is processed.
C9_OverrunIsError ==
    \A k \in 1..Len(frames) : FirstTlvOverruns(frames[k]) => BatchesOf(k) = << >>

\* the frame carries one type-1010 TLV and nothing else
OneTrackTlv(f) ==
    WellFormed(f) /\ U32(f, 32) = 1 /\ U32(f, HEADER_LEN) = TRACK_TLV

\* C10: with a grid configured, the tracks of a type-1010 TLV are emitted
\* if and only if their confidence is >= 0.5 (0.5 itself is kept), in
\* their order and with their ids: one batch holding exactly the kept
\* tracks, or no batch when none is kept.
C10_ConfidenceFilter ==
    \A k \in 1..Len(frames) :
        (OneTrackTlv(frames[k]) /\ Active(dims_at[k])) =>
            IF KeptIds(frames[k]) = << >> THEN BatchesOf(k) = << >>
            ELSE /\ Len(BatchesOf(k)) = 1
                 /\ BatchIds(BatchesOf(k)[1].points) = KeptIds(frames[k])

\* C10 witness: of the tracks 1, 2, 3 with confidences 0.5, 0.4999 and 0.9
\* the tracks 1 and 3 were emitted
C10_Witness ==
    \E k \in 1..Len(frames) :
        /\ frames[k] = F3 /\ Active(dims_at[k])
        /\ Len(BatchesOf(k)) = 1
        /\ BatchIds(BatchesOf(k)[1].points) = <<1, 3>>

\* the scenario is a frame with a valid header and length and malformed TLV
\* content, followed by the valid frame F1
MalformedThenValid ==
    /\ Sc.pre = << >> /\ Sc.post = << >> /\ Len(Sc.body) = 2
    /\ ValidFrame(Sc.body[1]) /\ ~WellFormed(Sc.body[1])
    /\ Sc.body[2] = F1

\* the points of F1 under the default grid: id 7 at (3.0, 50.0) metres is
\* cell (14.37, 9.58)
F1Points == << [x |-> 1437, y |-> 958, id |-> 7, x_real |-> 768, y_real |-> 12800] >>

\* C8: a decode error in the TLVs of a frame does not stop the worker, and
\* the valid frame F1 behind the malformed frame is extracted and gives the
\* notification it gives when it arrives alone.
C8_DecodeErrorRecovered ==
    /\ MalformedThenValid =>
          /\ running /\ thread = "alive"
          /\ IsPrefix(frames, Sc.body)
          /\ Quiet => /\ frames = Sc.body
                      /\ errors >= 1
                      /\ BatchesOf(2) = << [frame |-> 2, points |-> F1Points] >>
    /\ (SingleFrame /\ Sc.body = <<F1>> /\ Quiet) =>
          radar_points_ready = << [frame |-> 1, points |-> F1Points] >>

\* C8 witness: the malformed frame was reported and F1 behind it was decoded
C8_Witness ==
    /\ MalformedThenValid /\ Quiet /\ errors >= 1
    /\ frames = Sc.body /\ BatchesOf(2) # << >>

\* the dimensions in force when the i-th notification was emitted
DimsOfBatch(i) == dims_at[radar_points_ready[i].frame]

\* C11: every emitted point lies inside the grid in force: 0 <= x <= nx - 1
\* and 0 <= y <= ny - 1, whatever the real-world position was (outside the
\* configured range, infinite or not a number).
C11_PointsInsideGrid ==
    \A i \in 1..Len(radar_points_ready) :
        \A j \in 1..Len(radar_points_ready[i].points) :
            LET pt == radar_points_ready[i].points[j]
                d == DimsOfBatch(i)
            IN  /\ 0 <= pt.x /\ pt.x <= (d.nx - 1) * GX
                /\ 0 <= pt.y /\ pt.y <= (d.ny - 1) * GX

\* C11 witness: the tracks at (NaN, -inf) and (+inf, -20.0) were emitted on
\* a grid of more than one column, clamped to the last column and row 0
C11_Witness ==
    \E i \in 1..Len(radar_points_ready) :
        /\ frames[radar_points_ready[i].frame] = F7
        /\ DimsOfBatch(i).nx > 1
        /\ Len(radar_points_ready[i].points) = 2
        /\ radar_points_ready[i].points[1].x = (DimsOfBatch(i).nx - 1) * GX
        /\ radar_points_ready[i].points[2].y = 0

\* C12: whenever rescale_and_emit_points reaches the mapping step and emits
\* (nx # 0 and ny # 0), the stored bounds satisfy x_max > x_min and
\* y_max > y_min: neither division has a zero divisor.
C12_NoZeroDivisor ==
    \A i \in 1..Len(radar_points_ready) :
        /\ DimsOfBatch(i).x_max > DimsOfBatch(i).x_min
        /\ DimsOfBatch(i).y_max > DimsOfBatch(i).y_min

\* C13: every frame handed to parse_standard_frame is at least the 40 bytes
\* of a header long and exactly as long as the totalPacketLen its header
\* declares; a header declaring fewer than 40 bytes is never extracted.
C13_FramesCarryHeader ==
    \A k \in 1..Len(frames) :
        /\ Len(frames[k]) >= HEADER_LEN
        /\ Len(frames[k]) = U32(frames[k], 12)

\* C14: when the serial port raises, the worker releases the port and ends,
\* and the step that handles the failure emits exactly one notification on
\* the signals the consumer listens to.
C14_TransportFailureSurfaced ==
    [][last' = "serial_error" /\ last # "serial_error" =>
          /\ thread' = "exited" /\ ~running'
          /\ Len(radar_points_ready') + Len(grid_ready')
                 = Len(radar_points_ready) + Len(grid_ready) + 1]_vars

RECURSIVE TrackTlvs(_, _, _)
\* the type-1010 TLVs (header and payload) of a well-formed frame, in order
TrackTlvs(f, off, n) ==
    IF n = 0 THEN << >>
    ELSE LET next == off + tlvHeaderLength + U32(f, off + 4)
         IN  (IF U32(f, off) = TRACK_TLV THEN << Slice(f, off, next) >> ELSE << >>)
                 \o TrackTlvs(f, next, n - 1)

\* the frame without its TLVs of other types: numTLVs and totalPacketLen lowered
WithoutOtherTlvs(f) == Frame(TrackTlvs(f, HEADER_LEN, U32(f, 32)), U32(f, 16))

\* the frame carries a TLV that is not of type 1010
RECURSIVE HasOtherTlv(_, _, _)
HasOtherTlv(f, off, n) ==
    /\ n > 0
    /\ \/ U32(f, off) # TRACK_TLV
       \/ HasOtherTlv(f, off + tlvHeaderLength + U32(f, off + 4), n - 1)

\* C15: TLVs of a type other than 1010 are stepped over without error and
\* without effect: a well-formed frame yields the notifications of the same
\* frame with those TLVs removed, and no decode error is reported.
C15_OtherTlvsSkipped ==
    /\ \A k \in 1..Len(frames) :
           WellFormed(frames[k]) =>
               [i \in 1..Len(BatchesOf(k)) |-> BatchesOf(k)[i].points]
                   = parse_standard_frame(WithoutOtherTlvs(frames[k]), dims_at[k]).emits
    /\ (\A k \in 1..Len(frames) : WellFormed(frames[k])) => errors = 0

\* C15 witness: the tracks 14 and 15, each behind TLVs of other types, were
\* emitted
C15_Witness ==
    \E k \in 1..Len(frames) :
        /\ WellFormed(frames[k]) /\ HasOtherTlv(frames[k], HEADER_LEN, U32(frames[k], 32))
        /\ Len(BatchesOf(k)) = 2
        /\ BatchIds(BatchesOf(k)[1].points) = <<14>>
        /\ BatchIds(BatchesOf(k)[2].points) = <<15>>

\* the k-th frame is the frame of the end-to-end example, parsed with the
\* grid x in [-12, 12], y in [0, 120], dx = 1, dy = 5 (nx = 24, ny = 24)
ExampleParsed(k) == frames[k] = F1 /\ dims_at[k] = DimsOf(DefaultRequest)

\* one notification with the one point of track 7 at (3.0, 50.0) metres, its
\* grid coordinates within the given ranges (in 1/GX cell)
ExampleYields(k, x_lo, x_hi, y_lo, y_hi) ==
    /\ Len(BatchesOf(k)) = 1
    /\ Len(BatchesOf(k)[1].points) = 1
    /\ LET pt == BatchesOf(k)[1].points[1]
       IN  /\ pt.id = 7 /\ pt.x_real = 3 * FX /\ pt.y_real = 50 * FX
           /\ x_lo <= pt.x /\ pt.x <= x_hi
           /\ y_lo <= pt.y /\ pt.y <= y_hi

\* C16 as stated: the example frame yields one notification with one point,
\* id 7, gridX about 17.26 (17.25 to 17.27), gridY about 9.59 (9.58 to
\* 9.60), realX 3.0 and realY 50.0.
C16_ExampleAsStated ==
    \A k \in 1..Len(frames) :
        ExampleParsed(k) => ExampleYields(k, 1725, 1727, 958, 960)

\* C16 amended: the example frame yields one notification with one point,
\* id 7, gridX = ((3 + 12) / 24) * 23 = 14.375 (14.37 to 14.38), gridY =
\* (50 / 120) * 23 = 9.583 (9.58 to 9.59), realX 3.0 and realY 50.0.
C16_Example ==
    \A k \in 1..Len(frames) :
        ExampleParsed(k) => ExampleYields(k, 1437, 1438, 958, 959)

\* C16 witness: the example frame was parsed under the example's grid and a
\* notification was emitted for it
C16_Witness ==
    \E k \in 1..Len(frames) : ExampleParsed(k) /\ BatchesOf(k) # << >>

\* C17: every iteration of the worker's loop that does not end waiting for
\* more bytes takes at least one byte out of the buffer (of what it held and
\* what the iteration read), whatever totalPacketLen the header declares.
C17_IterationsShrinkBuffer ==
    [][(sent' = sent /\ last' \notin Waits) =>
           Len(buffer') < Len(buffer) + in_waiting]_vars

\* the frame's only TLV is a track TLV announcing more records than the
\* frame holds complete
TruncatedTrackTlv(f) ==
    /\ ValidFrame(f) /\ U32(f, 32) = 1
    /\ Len(f) >= HEADER_LEN + tlvHeaderLength
    /\ U32(f, HEADER_LEN) = TRACK_TLV
    /\ (Len(f) - HEADER_LEN - tlvHeaderLength) \div targetSize
           < U32(f, HEADER_LEN + 4) \div targetSize

\* the ids of the complete records of such a frame with confidence >= 0.5
CompleteIds(f) ==
    LET start == HEADER_LEN + tlvHeaderLength
        k == (Len(f) - start) \div targetSize
        recs == [i \in 1..k |->
                    Slice(f, start + (i - 1) * targetSize, start + i * targetSize)]
        kept == SelectSeq(recs, ConfAtLeastHalf)
    IN  [i \in 1..Len(kept) |-> U32(kept[i], 0)]

\* C18: of a track TLV announcing more records than its bytes hold, the
\* first k complete records are returned and forwarded to the mapper: with a
\* grid configured, those of them with confidence >= 0.5 are emitted.
C18_CompleteRecordsForwarded ==
    \A k \in 1..Len(frames) :
        (TruncatedTrackTlv(frames[k]) /\ Active(dims_at[k])
             /\ CompleteIds(frames[k]) # << >>) =>
            /\ Len(BatchesOf(k)) = 1
            /\ BatchIds(BatchesOf(k)[1].points) = CompleteIds(frames[k])

\* C19: once stop_reading has cleared the running flag, the worker, fairly
\* scheduled, leaves its loop and ends, wherever it was (waiting for a
\* marker, a header or the rest of a frame); and while it stays ended no
\* frame is decoded and no points notification is emitted.
C19_StopLeadsToExit ==
    /\ (thread = "alive" /\ ~running) ~> (thread = "exited")
    /\ [][(thread = "exited" /\ thread' = "exited") =>
              (frames' = frames /\ radar_points_ready' = radar_points_ready)]_vars

\* C19 witness: the worker was stopped and has ended while part of a frame
\* was in its buffer and the device still had bytes to send
C19_Witness ==
    /\ thread = "exited" /\ last = "exited" /\ ~running
    /\ buffer # << >> /\ sent < Len(Stream)

\* C20: whenever the worker decodes a header, the buffer starts with the
\* magic word the search found: the "Invalid magic word, skipping byte"
\* branch is never taken, and what the worker waits on or extracts as a
\* frame starts with the magic word.
C20_MagicCheckNeverFails ==
    /\ last # "resync"
    /\ last = "no_frame" => MagicOk(buffer)
    /\ (last = "frame" /\ frames[Len(frames)] # << >>) => MagicOk(frames[Len(frames)])

\* C20 witness: a header was decoded after a garbage prefix had been dropped
\* in front of the magic word, and the frame behind it was extracted
C20_Witness ==
    /\ Sc.pre # << >> /\ Find(Sc.pre) = -1
    /\ last = "frame" /\ frames = Sc.body

====
